---- MODULE Spec2Model ----
(***************************************************************************)
(* State-machine model of server.js: the in-memory room registry, the     *)
(* matchmaking queue, the per-room tic-tac-toe state, the socket.io        *)
(* broadcast groups and the disconnect eviction timers.                    *)
(*                                                                         *)
(* JavaScript objects are modelled with their identity: every room object  *)
(* lives in `heap` and the registry `rooms` (a Map, insertion ordered)     *)
(* maps a room id to a heap reference, since timer closures capture the    *)
(* room object and not its id.                                             *)
(*                                                                         *)
(* Each handler h is an action h(...) for its effect on the server state   *)
(* and an operator hOut(...) for the messages it emits, in order, when run *)
(* in the current state.                                                   *)
(***************************************************************************)
EXTENDS Integers, Sequences, FiniteSets, TLC

\* ------------------------------------------------------------ bounds
\* Number of socket connections ever accepted.
MaxSockets == 2
\* Number of room objects ever constructed.
MaxRoomObjs == 2
\* Number of uuidv4() tokens ever issued.
MaxTokens == 3
\* Marks on a board in the full-system specification.
MaxMarks == 1
\* Chat entries kept per room.
MaxMsgs == 1
\* Finished rounds per room in the game specification.
MaxRounds == 2

\* ------------------------------------------------------------ inputs
\* Outcomes of generateRoomId() that the model draws from (4 characters of
\* the alphabet of line 72).
RoomIds == {"AAAA", "AAAB"}
\* Display names and chat texts, as sequences of characters.
Names == {<<"<", "b", ">">>}
Texts == {<<"<", "3">>}
\* Cell indices a client may send, in and out of 0..8.
CellInputs == -1 .. 9
\* The cell indices drawn in the full-system specification.
LobbyCells == {0, 9}

Null == "null"
Undefined == "undefined"

VARIABLES
    sockets,         \* sockets[s]: TRUE while connection s is open
    rooms,           \* the registry Map: sequence of [k |-> roomId, v |-> heap ref]
    heap,            \* room objects, by reference
    waitingPlayers,  \* matchmaking queue: sequence of [socket, name]
    tokens,          \* number of tokens issued by uuidv4()
    timers,          \* pending setTimeout callbacks of the disconnect handler
    joined           \* socket.io groups: joined[roomId] = sockets in the group

vars == <<sockets, rooms, heap, waitingPlayers, tokens, timers, joined>>

\* ------------------------------------------------------------ JS Map
\* A Map is a sequence of [k, v] entries in insertion order.
MapKeys(m) == {m[i].k : i \in 1 .. Len(m)}

MapHas(m, key) == key \in MapKeys(m)

MapIndex(m, key) == CHOOSE i \in 1 .. Len(m) : m[i].k = key

MapGet(m, key) == m[MapIndex(m, key)].v

\* Map.prototype.set: an existing key keeps its position.
MapSet(m, key, val) ==
    IF MapHas(m, key)
    THEN [m EXCEPT ![MapIndex(m, key)] = [k |-> key, v |-> val]]
    ELSE Append(m, [k |-> key, v |-> val])

MapDelete(m, key) == SelectSeq(m, LAMBDA e : e.k # key)

MapValues(m) == [i \in 1 .. Len(m) |-> m[i].v]

MapSize(m) == Len(m)

\* ------------------------------------------------------------ game logic
Cells == 0 .. 8

WINNING_COMBINATIONS ==
    << <<0, 1, 2>>, <<3, 4, 5>>, <<6, 7, 8>>,
       <<0, 3, 6>>, <<1, 4, 7>>, <<2, 5, 8>>,
       <<0, 4, 8>>, <<2, 4, 6>> >>

EmptyBoard == [c \in Cells |-> ""]

initializeGameState ==
    [board |-> EmptyBoard,
     currentPlayer |-> "X",
     gameActive |-> TRUE,
     scores |-> [winsX |-> 0, winsO |-> 0, draws |-> 0],
     messages |-> <<>>,
     winningCells |-> Null]

\* The condition of line 49 for one combination.
Uniform(board, combination) ==
    /\ board[combination[1]] # ""
    /\ board[combination[1]] = board[combination[2]]
    /\ board[combination[1]] = board[combination[3]]

WinIndexes(board) ==
    {i \in 1 .. Len(WINNING_COMBINATIONS) : Uniform(board, WINNING_COMBINATIONS[i])}

\* checkWin: the first uniform combination in declaration order.
checkWin(board) ==
    IF WinIndexes(board) = {}
    THEN [win |-> FALSE, winner |-> Undefined, winningCells |-> Undefined]
    ELSE LET i == CHOOSE j \in WinIndexes(board) : \A l \in WinIndexes(board) : j <= l
             combination == WINNING_COMBINATIONS[i]
         IN [win |-> TRUE, winner |-> board[combination[1]], winningCells |-> combination]

checkDraw(board) == \A c \in Cells : board[c] # ""

\* Mutant: the next round is started by the opposite of the mark whose turn it
\* is, not of the mark that started the last round.
resetGameForNewRound_FromTurn(room) ==
    LET next == IF room.currentPlayer = "X" THEN "O" ELSE "X"
    IN [room EXCEPT !.board = EmptyBoard,
                    !.gameActive = TRUE,
                    !.winningCells = Null,
                    !.currentPlayer = next,
                    !.lastStartingPlayer = next]

\* Mutant: the next round keeps the winning cells of the last one.
resetGameForNewRound_KeepCells(room) ==
    LET next == IF room.lastStartingPlayer = "X" THEN "O" ELSE "X"
    IN [room EXCEPT !.board = EmptyBoard,
                    !.gameActive = TRUE,
                    !.currentPlayer = next,
                    !.lastStartingPlayer = next]

resetGameForNewRound(room) ==
    LET next == IF room.lastStartingPlayer = "X" THEN "O" ELSE "X"
    IN [room EXCEPT !.board = EmptyBoard,
                    !.gameActive = TRUE,
                    !.winningCells = Null,
                    !.currentPlayer = next,
                    !.lastStartingPlayer = next]

\* ------------------------------------------------------------ helpers
RECURSIVE Replace(_, _, _)
\* String.prototype.replace(/c/g, by) on a sequence of characters.
Replace(str, c, by) ==
    IF str = <<>> THEN <<>>
    ELSE (IF Head(str) = c THEN by ELSE <<Head(str)>>) \o Replace(Tail(str), c, by)

sanitize(str) ==
    Replace(Replace(str, "<", <<"&", "l", "t", ";">>), ">", <<"&", "g", "t", ";">>)

\* Registry lookups by room id.
RoomsHas(reg, roomId) == MapHas(reg, roomId)

RoomOf(reg, hp, roomId) == hp[MapGet(reg, roomId)]

\* A message to one connection (socket.emit).
Emit(s, ev, data) == [ev |-> ev, sock |-> s, room |-> "", except |-> 0, data |-> data]

\* A message to a group (io.to(roomId).emit).
EmitRoom(roomId, ev, data) ==
    [ev |-> ev, sock |-> 0, room |-> roomId, except |-> 0, data |-> data]

\* A message to a group but one socket (socket.to(roomId).emit).
EmitOthers(s, roomId, ev, data) ==
    [ev |-> ev, sock |-> 0, room |-> roomId, except |-> s, data |-> data]

\* The payload of line 83.
RoomState(reg, hp, roomId) ==
    LET room == RoomOf(reg, hp, roomId)
    IN [roomId |-> roomId,
        players |-> MapValues(room.players),
        board |-> room.board,
        currentPlayer |-> room.currentPlayer,
        gameActive |-> room.gameActive,
        scores |-> room.scores,
        messages |-> room.messages,
        winningCells |-> room.winningCells]

\* broadcastRoomState on the registry and heap a handler has produced.
broadcastRoomState(reg, hp, roomId) ==
    IF ~RoomsHas(reg, roomId) THEN <<>>
    ELSE <<EmitRoom(roomId, "roomState", RoomState(reg, hp, roomId))>>

NewRoom ==
    [board |-> initializeGameState.board,
     currentPlayer |-> initializeGameState.currentPlayer,
     gameActive |-> initializeGameState.gameActive,
     scores |-> initializeGameState.scores,
     messages |-> initializeGameState.messages,
     winningCells |-> initializeGameState.winningCells,
     players |-> <<>>,
     lastStartingPlayer |-> "X",
     disconnectTimers |-> {}]

Player(s, name, role, token) == [id |-> s, name |-> name, role |-> role, token |-> token]

Connected == {s \in 1 .. Len(sockets) : sockets[s]}

\* ------------------------------------------------------------ Init
Init ==
    /\ sockets = <<>>
    /\ rooms = <<>>
    /\ heap = <<>>
    /\ waitingPlayers = <<>>
    /\ tokens = 0
    /\ timers = {}
    /\ joined = [r \in RoomIds |-> {}]

\* ------------------------------------------------------------ actions
\* io.on('connection'): a new socket with a fresh id.
connection ==
    /\ Len(sockets) < MaxSockets
    /\ sockets' = Append(sockets, TRUE)
    /\ UNCHANGED <<rooms, heap, waitingPlayers, tokens, timers, joined>>

\* The room object createRoom builds (lines 106-111).
CreatedRoom(s, playerName) ==
    [NewRoom EXCEPT !.players =
        MapSet(<<>>, s, Player(s, sanitize(playerName), "X", tokens + 1))]

createRoom(s, playerName, roomId) ==
    /\ heap' = Append(heap, CreatedRoom(s, playerName))
    /\ rooms' = MapSet(rooms, roomId, Len(heap) + 1)
    /\ tokens' = tokens + 1
    /\ joined' = [joined EXCEPT ![roomId] = @ \cup {s}]
    /\ UNCHANGED <<sockets, waitingPlayers, timers>>

createRoomOut(s, playerName, roomId) ==
    <<Emit(s, "roomCreated", [roomId |-> roomId, playerToken |-> tokens + 1, role |-> "X"])>>
    \o broadcastRoomState(MapSet(rooms, roomId, Len(heap) + 1),
                          Append(heap, CreatedRoom(s, playerName)), roomId)

\* Mutant: a room is full above 2 players only.
RoomFull_AboveTwo(room) == MapSize(room.players) > 2

\* The test of line 123.
RoomFull(room) == MapSize(room.players) >= 2

\* The joinRoom handler passes both early returns.
JoinAccepted(roomId) ==
    RoomsHas(rooms, roomId) /\ ~RoomFull(RoomOf(rooms, heap, roomId))

\* The players Map after line 126.
JoinedPlayers(players, s, playerName) ==
    MapSet(players, s, Player(s, sanitize(playerName), "O", tokens + 1))

\* The heap after an accepted joinRoom.
JoinHeap(s, roomId, playerName) ==
    [heap EXCEPT ![MapGet(rooms, roomId)].players = JoinedPlayers(@, s, playerName)]

joinRoom(s, roomId, playerName) ==
    IF ~JoinAccepted(roomId)
    THEN UNCHANGED vars
    ELSE /\ heap' = JoinHeap(s, roomId, playerName)
         /\ tokens' = tokens + 1
         /\ joined' = [joined EXCEPT ![roomId] = @ \cup {s}]
         /\ UNCHANGED <<sockets, rooms, waitingPlayers, timers>>

joinRoomOut(s, roomId, playerName) ==
    IF ~RoomsHas(rooms, roomId) THEN <<Emit(s, "roomError", "Room not found.")>>
    ELSE IF RoomFull(RoomOf(rooms, heap, roomId))
    THEN <<Emit(s, "roomError", "Room is full.")>>
    ELSE <<Emit(s, "roomJoined",
                [roomId |-> roomId, playerToken |-> tokens + 1, role |-> "O"])>>
         \o broadcastRoomState(rooms, JoinHeap(s, roomId, playerName), roomId)

\* The room object findOpponent builds (lines 139-144).
PairedRoom(opponent, s, playerName) ==
    [NewRoom EXCEPT !.players =
        MapSet(MapSet(<<>>, opponent.socket,
                      Player(opponent.socket, opponent.name, "X", tokens + 1)),
               s, Player(s, sanitize(playerName), "O", tokens + 2))]

\* Mutant: findOpponent pairs only when two entries wait.
PairsUp_TwoWaiting == Len(waitingPlayers) > 1

\* The test of line 136.
PairsUp == Len(waitingPlayers) > 0

findOpponent(s, playerName, roomId) ==
    IF PairsUp
    THEN LET opponent == Head(waitingPlayers)
         IN /\ waitingPlayers' = Tail(waitingPlayers)
            /\ heap' = Append(heap, PairedRoom(opponent, s, playerName))
            /\ rooms' = MapSet(rooms, roomId, Len(heap) + 1)
            /\ tokens' = tokens + 2
            /\ joined' = [joined EXCEPT ![roomId] = @ \cup {opponent.socket, s}]
            /\ UNCHANGED <<sockets, timers>>
    ELSE /\ waitingPlayers' = Append(waitingPlayers,
                                     [socket |-> s, name |-> sanitize(playerName)])
         /\ UNCHANGED <<sockets, rooms, heap, tokens, timers, joined>>

findOpponentOut(s, playerName, roomId) ==
    IF PairsUp
    THEN LET opponent == Head(waitingPlayers)
         IN <<Emit(opponent.socket, "opponentFound",
                   [roomId |-> roomId, playerToken |-> tokens + 1, role |-> "X"]),
              Emit(s, "opponentFound",
                   [roomId |-> roomId, playerToken |-> tokens + 2, role |-> "O"])>>
            \o broadcastRoomState(MapSet(rooms, roomId, Len(heap) + 1),
                                  Append(heap, PairedRoom(opponent, s, playerName)),
                                  roomId)
    ELSE <<Emit(s, "waitingForOpponent", <<>>)>>

\* Array.prototype.findIndex on the queue (0 models -1).
WaitingIndex(queue, s) ==
    IF \E i \in 1 .. Len(queue) : queue[i].socket = s
    THEN CHOOSE i \in 1 .. Len(queue) :
            /\ queue[i].socket = s
            /\ \A j \in 1 .. (i - 1) : queue[j].socket # s
    ELSE 0

\* Array.prototype.splice(index, 1).
Splice(queue, index) ==
    [i \in 1 .. (Len(queue) - 1) |-> IF i < index THEN queue[i] ELSE queue[i + 1]]

\* Mutant: the entry of socket s is left in the queue.
RemoveWaiting_None(queue, s) == queue

\* The queue after removing the first entry of socket s, if any.
RemoveWaiting(queue, s) ==
    IF WaitingIndex(queue, s) # 0 THEN Splice(queue, WaitingIndex(queue, s)) ELSE queue

cancelFindOpponent(s) ==
    /\ waitingPlayers' = RemoveWaiting(waitingPlayers, s)
    /\ UNCHANGED <<sockets, rooms, heap, tokens, timers, joined>>

cancelFindOpponentOut(s) == <<>>

\* board[cellIndex] for any index a client sends.
BoardAt(board, cellIndex) ==
    IF cellIndex \in Cells THEN board[cellIndex] ELSE Undefined

\* Mutant: the early return does not test gameActive.
MoveRejected_NoActiveTest(room, s, cellIndex) ==
    \/ ~MapHas(room.players, s)
    \/ MapGet(room.players, s).role # room.currentPlayer
    \/ BoardAt(room.board, cellIndex) # ""

\* The early return of line 170.
MoveRejected(room, s, cellIndex) ==
    \/ ~MapHas(room.players, s)
    \/ MapGet(room.players, s).role # room.currentPlayer
    \/ BoardAt(room.board, cellIndex) # ""
    \/ ~room.gameActive

\* Mutant: the draw test comes before the win test.
ApplyMove_DrawFirst(room, cellIndex) ==
    LET board == [room.board EXCEPT ![cellIndex] = room.currentPlayer]
        winResult == checkWin(board)
    IN IF checkDraw(board)
       THEN [room EXCEPT !.board = board,
                         !.gameActive = FALSE,
                         !.scores = [@ EXCEPT !.draws = @ + 1]]
       ELSE IF winResult.win
       THEN [room EXCEPT !.board = board,
                         !.gameActive = FALSE,
                         !.winningCells = winResult.winningCells,
                         !.scores = IF winResult.winner = "X"
                                    THEN [@ EXCEPT !.winsX = @ + 1]
                                    ELSE [@ EXCEPT !.winsO = @ + 1]]
       ELSE [room EXCEPT !.board = board,
                         !.currentPlayer = IF room.currentPlayer = "X" THEN "O" ELSE "X"]

\* Mutant: a draw freezes the game without counting it.
ApplyMove_DrawNotCounted(room, cellIndex) ==
    LET board == [room.board EXCEPT ![cellIndex] = room.currentPlayer]
        winResult == checkWin(board)
    IN IF winResult.win
       THEN [room EXCEPT !.board = board,
                         !.gameActive = FALSE,
                         !.winningCells = winResult.winningCells,
                         !.scores = IF winResult.winner = "X"
                                    THEN [@ EXCEPT !.winsX = @ + 1]
                                    ELSE [@ EXCEPT !.winsO = @ + 1]]
       ELSE IF checkDraw(board)
       THEN [room EXCEPT !.board = board,
                         !.gameActive = FALSE]
       ELSE [room EXCEPT !.board = board,
                         !.currentPlayer = IF room.currentPlayer = "X" THEN "O" ELSE "X"]

\* Lines 172-183 on a room that passed the early returns.
ApplyMove(room, cellIndex) ==
    LET board == [room.board EXCEPT ![cellIndex] = room.currentPlayer]
        winResult == checkWin(board)
    IN IF winResult.win
       THEN [room EXCEPT !.board = board,
                         !.gameActive = FALSE,
                         !.winningCells = winResult.winningCells,
                         !.scores = IF winResult.winner = "X"
                                    THEN [@ EXCEPT !.winsX = @ + 1]
                                    ELSE [@ EXCEPT !.winsO = @ + 1]]
       ELSE IF checkDraw(board)
       THEN [room EXCEPT !.board = board,
                         !.gameActive = FALSE,
                         !.scores = [@ EXCEPT !.draws = @ + 1]]
       ELSE [room EXCEPT !.board = board,
                         !.currentPlayer = IF room.currentPlayer = "X" THEN "O" ELSE "X"]

\* The makeMove handler passes both early returns.
MoveAccepted(s, roomId, cellIndex) ==
    /\ RoomsHas(rooms, roomId)
    /\ ~MoveRejected(RoomOf(rooms, heap, roomId), s, cellIndex)

\* The heap after an accepted makeMove.
MoveHeap(roomId, cellIndex) ==
    [heap EXCEPT ![MapGet(rooms, roomId)] = ApplyMove(@, cellIndex)]

makeMove(s, roomId, cellIndex) ==
    IF ~MoveAccepted(s, roomId, cellIndex)
    THEN UNCHANGED vars
    ELSE /\ heap' = MoveHeap(roomId, cellIndex)
         /\ UNCHANGED <<sockets, rooms, waitingPlayers, tokens, timers, joined>>

makeMoveOut(s, roomId, cellIndex) ==
    IF ~MoveAccepted(s, roomId, cellIndex) THEN <<>>
    ELSE broadcastRoomState(rooms, MoveHeap(roomId, cellIndex), roomId)

\* The resetGame handler passes both early returns.
ResetAccepted(s, roomId) ==
    /\ RoomsHas(rooms, roomId)
    /\ MapHas(RoomOf(rooms, heap, roomId).players, s)

\* The heap after an accepted resetGame.
ResetHeap(roomId) ==
    [heap EXCEPT ![MapGet(rooms, roomId)] = resetGameForNewRound(@)]

resetGame(s, roomId) ==
    IF ~ResetAccepted(s, roomId)
    THEN UNCHANGED vars
    ELSE /\ heap' = ResetHeap(roomId)
         /\ UNCHANGED <<sockets, rooms, waitingPlayers, tokens, timers, joined>>

resetGameOut(s, roomId) ==
    IF ~ResetAccepted(s, roomId) THEN <<>>
    ELSE broadcastRoomState(rooms, ResetHeap(roomId), roomId)

\* The sendMessage handler passes both early returns.
MessageAccepted(s, roomId) ==
    /\ RoomsHas(rooms, roomId)
    /\ MapHas(RoomOf(rooms, heap, roomId).players, s)

\* room.messages after line 202.
PushedMessages(room, s, message) ==
    Append(room.messages,
           [playerId |-> s, playerName |-> MapGet(room.players, s).name,
            message |-> sanitize(message)])

sendMessage(s, roomId, message) ==
    IF ~MessageAccepted(s, roomId)
    THEN UNCHANGED vars
    ELSE /\ heap' = [heap EXCEPT ![MapGet(rooms, roomId)].messages =
                        PushedMessages(heap[MapGet(rooms, roomId)], s, message)]
         /\ UNCHANGED <<sockets, rooms, waitingPlayers, tokens, timers, joined>>

sendMessageOut(s, roomId, message) ==
    IF ~MessageAccepted(s, roomId) THEN <<>>
    ELSE <<EmitRoom(roomId, "messageReceived",
                    PushedMessages(RoomOf(rooms, heap, roomId), s, message))>>

\* Registry positions whose room holds a player with the token.
TokenRooms(playerToken) ==
    {i \in 1 .. Len(rooms) :
        \E j \in 1 .. Len(heap[rooms[i].v].players) :
            heap[rooms[i].v].players[j].v.token = playerToken}

\* The registry position the scan of line 208 stops at.
TokenRoom(playerToken) ==
    CHOOSE i \in TokenRooms(playerToken) : \A y \in TokenRooms(playerToken) : i <= y

\* The key (line 209) of the first player of the Map that bears the token.
TokenHolder(players, playerToken) ==
    LET j == CHOOSE x \in 1 .. Len(players) :
                /\ players[x].v.token = playerToken
                /\ \A y \in 1 .. (x - 1) : players[y].v.token # playerToken
    IN players[j].k

\* Lines 217-219: the player entry moves to the new socket id.
Rekey(players, oldSocketId, s) ==
    MapSet(MapDelete(players, oldSocketId), s,
           [MapGet(players, oldSocketId) EXCEPT !.id = s])

\* The room object after lines 213-219.
ReconnectedRoom(room, s, playerToken) ==
    LET oldSocketId == TokenHolder(room.players, playerToken)
    IN [room EXCEPT !.disconnectTimers = @ \ {oldSocketId},
                    !.players = Rekey(@, oldSocketId, s)]

\* The heap after a successful reconnectGame.
ReconnectHeap(s, playerToken) ==
    [heap EXCEPT ![rooms[TokenRoom(playerToken)].v] =
        ReconnectedRoom(@, s, playerToken)]

\* Mutant: reconnectGame cancels no timer.
ClearedTimers_None(room, playerToken) == {}

\* The timers clearTimeout cancels at line 214.
ClearedTimers(room, playerToken) ==
    LET oldSocketId == TokenHolder(room.players, playerToken)
    IN IF oldSocketId \in room.disconnectTimers
       THEN {t \in timers : t.sock = oldSocketId}
       ELSE {}

reconnectGame(s, playerToken) ==
    IF TokenRooms(playerToken) = {}
    THEN UNCHANGED vars
    ELSE LET i == TokenRoom(playerToken)
         IN /\ timers' = timers \ ClearedTimers(heap[rooms[i].v], playerToken)
            /\ heap' = ReconnectHeap(s, playerToken)
            /\ joined' = [joined EXCEPT ![rooms[i].k] = @ \cup {s}]
            /\ UNCHANGED <<sockets, rooms, waitingPlayers, tokens>>

reconnectGameOut(s, playerToken) ==
    IF TokenRooms(playerToken) = {}
    THEN <<Emit(s, "reconnectFailed", <<>>)>>
    ELSE LET roomId == rooms[TokenRoom(playerToken)].k
         IN <<Emit(s, "reconnectSuccess", [roomId |-> roomId])>>
            \o broadcastRoomState(rooms, ReconnectHeap(s, playerToken), roomId)

\* Registry positions whose room has socket s among its players.
RoomsOfSocket(s) == {i \in 1 .. Len(rooms) : MapHas(heap[rooms[i].v].players, s)}

\* The registry position the loop of line 236 breaks at.
RoomOfSocket(s) ==
    CHOOSE i \in RoomsOfSocket(s) : \A y \in RoomsOfSocket(s) : i <= y

\* The timer the disconnect handler schedules: what its closure holds.
Timer(s, i) ==
    [sock |-> s, room |-> rooms[i].v, roomId |-> rooms[i].k,
     token |-> MapGet(heap[rooms[i].v].players, s).token]

disconnect(s) ==
    /\ sockets' = [sockets EXCEPT ![s] = FALSE]
    /\ waitingPlayers' = RemoveWaiting(waitingPlayers, s)
    /\ joined' = [r \in RoomIds |-> joined[r] \ {s}]
    /\ UNCHANGED <<rooms, tokens>>
    /\ IF RoomsOfSocket(s) = {}
       THEN UNCHANGED <<heap, timers>>
       ELSE LET i == RoomOfSocket(s)
            IN /\ timers' = timers \cup {Timer(s, i)}
               /\ heap' = [heap EXCEPT ![rooms[i].v].disconnectTimers = @ \cup {s}]

disconnectOut(s) ==
    IF RoomsOfSocket(s) = {} THEN <<>>
    ELSE LET i == RoomOfSocket(s)
         IN <<EmitOthers(s, rooms[i].k, "playerDisconnected",
                         [playerName |-> MapGet(heap[rooms[i].v].players, s).name])>>

\* Line 243 on the room object the closure holds.
PlayerStillExists(room, token) ==
    \E j \in 1 .. Len(room.players) : room.players[j].v.token = token

\* room.players after line 244.
EvictedPlayers(room, t) ==
    IF PlayerStillExists(room, t.token) THEN MapDelete(room.players, t.sock)
    ELSE room.players

\* The heap after the callback of timer t.
EvictHeap(t) == [heap EXCEPT ![t.room].players = EvictedPlayers(heap[t.room], t)]

\* The setTimeout callback of lines 242-252, for the pending timer t.
evictionTimer(t) ==
    /\ timers' = timers \ {t}
    /\ heap' = EvictHeap(t)
    /\ rooms' = IF MapSize(EvictedPlayers(heap[t.room], t)) = 0
                THEN MapDelete(rooms, t.roomId)
                ELSE rooms
    /\ UNCHANGED <<sockets, waitingPlayers, tokens, joined>>

evictionTimerOut(t) ==
    IF MapSize(EvictedPlayers(heap[t.room], t)) = 0 THEN <<>>
    ELSE broadcastRoomState(rooms, EvictHeap(t), t.roomId)

\* ------------------------------------------------------------ specification
\* Marks on the board of a room.
Marks(room) == Cardinality({c \in Cells : room.board[c] # ""})

Tokens == 1 .. MaxTokens

\* One definition per event the server handles: the handler on inputs drawn
\* from the sets above, within the bounds.
OnConnection == connection

OnCreateRoom ==
    \E s \in Connected, n \in Names, r \in RoomIds :
        /\ Len(heap) < MaxRoomObjs
        /\ tokens < MaxTokens
        /\ createRoom(s, n, r)

OnJoinRoom ==
    \E s \in Connected, n \in Names, r \in RoomIds :
        /\ JoinAccepted(r) => tokens < MaxTokens
        /\ joinRoom(s, r, n)

OnFindOpponent ==
    \E s \in Connected, n \in Names, r \in RoomIds :
        /\ PairsUp => (Len(heap) < MaxRoomObjs /\ tokens + 2 <= MaxTokens)
        /\ findOpponent(s, n, r)

OnCancelFindOpponent == \E s \in Connected : cancelFindOpponent(s)

OnMakeMove ==
    \E s \in Connected, r \in RoomIds, c \in LobbyCells :
        /\ MoveAccepted(s, r, c) => Marks(RoomOf(rooms, heap, r)) < MaxMarks
        /\ makeMove(s, r, c)

OnResetGame == \E s \in Connected, r \in RoomIds : resetGame(s, r)

OnSendMessage ==
    \E s \in Connected, r \in RoomIds, m \in Texts :
        /\ MessageAccepted(s, r) => Len(RoomOf(rooms, heap, r).messages) < MaxMsgs
        /\ sendMessage(s, r, m)

OnReconnectGame == \E s \in Connected, tok \in Tokens : reconnectGame(s, tok)

OnDisconnect == \E s \in Connected : disconnect(s)

OnTimeout == \E t \in timers : evictionTimer(t)

Next ==
    \/ OnConnection
    \/ OnCreateRoom
    \/ OnJoinRoom
    \/ OnFindOpponent
    \/ OnCancelFindOpponent
    \/ OnMakeMove
    \/ OnResetGame
    \/ OnSendMessage
    \/ OnReconnectGame
    \/ OnDisconnect
    \/ OnTimeout

Spec == Init /\ [][Next]_vars

\* ------------------------------------------------------------ game specification
\* One room in play: the state after connection (three times), createRoom by
\* socket 1 with id "AAAA", joinRoom by socket 2 and sendMessage by socket 2.
\* Socket 3 is connected and in no room; no room has id "AAAB".
InitGame ==
    /\ sockets = <<TRUE, TRUE, TRUE>>
    /\ rooms = <<[k |-> "AAAA", v |-> 1]>>
    /\ heap = <<[NewRoom EXCEPT
                   !.players = <<[k |-> 1, v |-> Player(1, sanitize(<<"<", "b", ">">>), "X", 1)],
                                 [k |-> 2, v |-> Player(2, sanitize(<<"<", "b", ">">>), "O", 2)]>>,
                   !.messages = <<[playerId |-> 2,
                                   playerName |-> sanitize(<<"<", "b", ">">>),
                                   message |-> sanitize(<<"<", "3">>)]>>]>>
    /\ waitingPlayers = <<>>
    /\ tokens = 2
    /\ timers = {}
    /\ joined = [r \in RoomIds |-> IF r = "AAAA" THEN {1, 2} ELSE {}]

\* Rounds a room has finished.
Rounds(room) == room.scores.winsX + room.scores.winsO + room.scores.draws

\* makeMove on every cell index a client may send.
PlayMove == \E s \in Connected, r \in RoomIds, c \in CellInputs : makeMove(s, r, c)

\* resetGame, as long as the room has finished fewer than MaxRounds rounds.
PlayReset ==
    \E s \in Connected, r \in RoomIds :
        /\ ResetAccepted(s, r) => Rounds(RoomOf(rooms, heap, r)) < MaxRounds
        /\ resetGame(s, r)

NextGame == PlayMove \/ PlayReset

SpecGame == InitGame /\ [][NextGame]_vars

\* ------------------------------------------------------------ properties
Refs == 1 .. Len(heap)

\* The room object registered under roomId, in the next state.
RoomOfNext(roomId) == heap'[MapGet(rooms', roomId)]

\* The rejection conditions as the move protocol lists them.
MoveIllegal(s, roomId, cellIndex) ==
    IF roomId \notin {rooms[i].k : i \in 1 .. Len(rooms)} THEN TRUE
    ELSE LET room == RoomOf(rooms, heap, roomId)
         IN IF \A j \in 1 .. Len(room.players) : room.players[j].k # s THEN TRUE
            ELSE IF cellIndex \notin 0 .. 8 THEN TRUE
            ELSE \/ \E j \in 1 .. Len(room.players) :
                       room.players[j].k = s /\ room.players[j].v.role # room.currentPlayer
                 \/ room.board[cellIndex] # ""
                 \/ room.gameActive = FALSE

\* The step puts a mark on cell c of room object o.
MarkPlaced(o, c) == heap'[o].board[c] # heap[o].board[c] /\ heap'[o].board[c] # ""

\* The step is a makeMove on cell c of room object o by a player of that room
\* whose role is the mark.
MovedBy(o, c, mark) ==
    \E s \in Connected, r \in RoomIds :
        /\ RoomsHas(rooms, r)
        /\ MapGet(rooms, r) = o
        /\ MapHas(heap[o].players, s)
        /\ MapGet(heap[o].players, s).role = mark
        /\ makeMove(s, r, c)

\* A mark is written to a cell of room object o only in an active game, onto an
\* empty cell, and it is the mark of currentPlayer, written by a makeMove of a
\* player of the room who holds that mark.
LegalWrites ==
    \A o \in Refs, c \in Cells :
        MarkPlaced(o, c)
        => /\ heap[o].gameActive
           /\ heap[o].board[c] = ""
           /\ heap'[o].board[c] = heap[o].currentPlayer
           /\ MovedBy(o, c, heap[o].currentPlayer)

\* An illegal makeMove emits nothing.
IllegalMoveSilent ==
    \A s \in Connected, r \in RoomIds, c \in CellInputs :
        MoveIllegal(s, r, c) => makeMoveOut(s, r, c) = <<>>

\* An illegal makeMove has no step that changes the state.
IllegalMoveNoEffect ==
    \A s \in Connected, r \in RoomIds, c \in CellInputs :
        MoveIllegal(s, r, c) => ~ENABLED (makeMove(s, r, c) /\ vars' # vars)

\* C5: makeMove changes nothing and broadcasts nothing when the room id is
\* unknown, the actor is not a player of the room, the actor's role differs from
\* currentPlayer, the cell index is outside 0..8, the cell is non-empty or
\* gameActive is false; a board cell is written only in an active room, by the
\* mark of currentPlayer held by a player, onto an empty cell.
C5_IllegalMoveRejected ==
    /\ [](IllegalMoveSilent /\ IllegalMoveNoEffect)
    /\ [][heap' # heap => LegalWrites]_vars

\* C5 witness: a finished round with a free cell, so that moves of every
\* rejected kind (inactive game, occupied cell, wrong turn, stranger, unknown
\* room, index out of range) have been offered and legal ones have been played.
C5_Witness ==
    \E o \in Refs :
        /\ ~heap[o].gameActive
        /\ \E c \in Cells : heap[o].board[c] = ""
        /\ \E c \in Cells : heap[o].board[c] # ""
        /\ \E s \in Connected : ~MapHas(heap[o].players, s)
        /\ \E r \in RoomIds : ~RoomsHas(rooms, r)

\* Putting mark on the cell completes a row, column or diagonal of that mark.
Completes(board, cellIndex, mark) ==
    \E i \in 1 .. 8 :
        /\ cellIndex \in {WINNING_COMBINATIONS[i][1], WINNING_COMBINATIONS[i][2],
                          WINNING_COMBINATIONS[i][3]}
        /\ \A k \in 1 .. 3 : board[WINNING_COMBINATIONS[i][k]] = mark

\* winningCells names a row, column or diagonal whose cells all hold mark.
UniformTriple(board, cells, mark) ==
    /\ \E i \in 1 .. 8 : WINNING_COMBINATIONS[i] = cells
    /\ \A k \in 1 .. 3 : board[cells[k]] = mark

Full(board) == \A c \in Cells : board[c] # ""

\* The effect of a winning move on cell c of room object o.
WinStep(o, c) ==
    LET room == heap[o]
        after == heap'[o]
        mover == after.board[c]
    IN Completes(after.board, c, mover)
       => /\ after.gameActive = FALSE
          /\ after.winningCells # Null
          /\ UniformTriple(after.board, after.winningCells, mover)
          /\ after.scores.draws = room.scores.draws
          /\ IF mover = "X"
             THEN /\ after.scores.winsX = room.scores.winsX + 1
                  /\ after.scores.winsO = room.scores.winsO
             ELSE /\ after.scores.winsO = room.scores.winsO + 1
                  /\ after.scores.winsX = room.scores.winsX

\* C6: an accepted makeMove (a step that puts the mover's mark on a cell) that
\* completes a uniform row, column or diagonal leaves gameActive = false,
\* winningCells a uniform triple of the mover's mark, the mover's win counter one
\* higher, the other win counter and the draw counter unchanged, also when the
\* move fills the last empty cell.
C6_WinFreezesAndScores ==
    [][heap' # heap =>
          \A o \in Refs, c \in Cells :
              MarkPlaced(o, c) => (MovedBy(o, c, heap'[o].board[c]) /\ WinStep(o, c))]_vars

\* C6 witness: a full board won by X on the ninth mark, scored as a win.
C6_Witness ==
    \E o \in Refs :
        /\ Full(heap[o].board)
        /\ heap[o].winningCells # Null
        /\ ~heap[o].gameActive
        /\ heap[o].scores = [winsX |-> 1, winsO |-> 0, draws |-> 0]

\* No row, column or diagonal of the board is uniform and non-empty.
NoTriple(board) ==
    \A i \in 1 .. 8 :
        \/ board[WINNING_COMBINATIONS[i][1]] = ""
        \/ board[WINNING_COMBINATIONS[i][1]] # board[WINNING_COMBINATIONS[i][2]]
        \/ board[WINNING_COMBINATIONS[i][1]] # board[WINNING_COMBINATIONS[i][3]]

\* The effect of a move on cell c of room object o that does not win.
NoWinStep(o, c) ==
    LET room == heap[o]
        after == heap'[o]
    IN /\ (Full(after.board) /\ NoTriple(after.board))
          => /\ after.gameActive = FALSE
             /\ after.scores = [room.scores EXCEPT !.draws = @ + 1]
             /\ after.winningCells = Null
       /\ (~Full(after.board) /\ NoTriple(after.board))
          => /\ after.gameActive = TRUE
             /\ after.currentPlayer # room.currentPlayer
             /\ after.currentPlayer \in {"X", "O"}
             /\ after.scores = room.scores

\* C7: an accepted makeMove (a step that puts the mover's mark on a cell) that
\* fills the last empty cell without a uniform triple leaves gameActive = false,
\* draws one higher, both win counters unchanged and winningCells null; an
\* accepted move that neither wins nor fills the board switches currentPlayer to
\* the other mark and leaves gameActive true.
C7_DrawOrAlternate ==
    [][heap' # heap =>
          \A o \in Refs, c \in Cells :
              MarkPlaced(o, c) => (MovedBy(o, c, heap'[o].board[c]) /\ NoWinStep(o, c))]_vars

\* C7 witness: a full board without a uniform triple, scored as a draw.
C7_Witness ==
    \E o \in Refs :
        /\ Full(heap[o].board)
        /\ NoTriple(heap[o].board)
        /\ ~heap[o].gameActive
        /\ heap[o].winningCells = Null
        /\ heap[o].scores = [winsX |-> 0, winsO |-> 0, draws |-> 1]

\* The effect of an accepted resetGame on the room.
ResetStep(r) ==
    LET room == RoomOf(rooms, heap, r)
        after == RoomOfNext(r)
    IN /\ after.currentPlayer = (IF room.lastStartingPlayer = "X" THEN "O" ELSE "X")
       /\ after.lastStartingPlayer = after.currentPlayer
       /\ after.board = [c \in Cells |-> ""]
       /\ after.winningCells = Null
       /\ after.gameActive = TRUE
       /\ after.scores = room.scores
       /\ after.messages = room.messages

\* lastStartingPlayer of a room object changes only in an accepted resetGame of it.
StarterKept ==
    \A o \in Refs :
        heap'[o].lastStartingPlayer # heap[o].lastStartingPlayer
        => \E s \in Connected, r \in RoomIds :
              /\ ResetAccepted(s, r)
              /\ MapGet(rooms, r) = o
              /\ resetGame(s, r)

\* The mark to move on an empty board is the one recorded as the round's starter.
StarterMovesFirst ==
    \A o \in Refs :
        heap[o].board = [c \in Cells |-> ""]
        => heap[o].currentPlayer = heap[o].lastStartingPlayer

\* C8: the first round of a room starts with X and every accepted resetGame
\* starts a round with the opposite of the mark that started the previous round
\* (whoever won, finished or not); it clears the board and winningCells, sets
\* gameActive = true and leaves scores and messages unchanged.
C8_ResetAlternatesStarter ==
    /\ [](StarterMovesFirst)
    /\ [][heap' # heap =>
             /\ StarterKept
             /\ \A s \in Connected, r \in RoomIds :
                   (ResetAccepted(s, r) /\ resetGame(s, r)) => ResetStep(r)]_vars

\* C8 witness: the round after a round X won has been started, by O, with the
\* score and the chat log kept.
C8_Witness ==
    \E o \in Refs :
        /\ heap[o].scores = [winsX |-> 1, winsO |-> 0, draws |-> 0]
        /\ heap[o].board = [c \in Cells |-> ""]
        /\ heap[o].gameActive
        /\ heap[o].currentPlayer = "O"
        /\ heap[o].messages # <<>>

\* ------------------------------------------------------------ session properties
\* The room objects the registry holds (the live rooms).
LiveRefs == {rooms[i].v : i \in 1 .. Len(rooms)}

\* C1: every live room has at most 2 players and no two players of a room hold
\* the same mark.
C1_TwoPlayersDistinctMarks ==
    \A o \in LiveRefs :
        /\ Len(heap[o].players) <= 2
        /\ \A j, k \in 1 .. Len(heap[o].players) :
              j # k => heap[o].players[j].v.role # heap[o].players[k].v.role

\* C2: each connection identity is a key of at most one live room's players
\* mapping and appears in at most one waiting-queue entry.
C2_OneRoomOneQueueEntry ==
    \A s \in 1 .. Len(sockets) :
        /\ Cardinality({i \in 1 .. Len(rooms) : MapHas(heap[rooms[i].v].players, s)}) <= 1
        /\ Cardinality({i \in 1 .. Len(waitingPlayers) : waitingPlayers[i].socket = s}) <= 1

\* C3: no step replaces the room object registered under the id of a live room:
\* an id that stays in the registry keeps its room object, so room creation
\* never uses the id of a live room.
C3_CreationKeepsLiveRooms ==
    [][\A i \in 1 .. Len(rooms) :
          RoomsHas(rooms', rooms[i].k) => MapGet(rooms', rooms[i].k) = rooms[i].v]_vars

\* The role and token of every player entry that stays in the room are kept.
EntriesKept ==
    \A o \in Refs, s \in 1 .. Len(sockets) :
        (MapHas(heap[o].players, s) /\ MapHas(heap'[o].players, s))
        => /\ MapGet(heap'[o].players, s).role = MapGet(heap[o].players, s).role
           /\ MapGet(heap'[o].players, s).token = MapGet(heap[o].players, s).token

\* A token that stays in the room stays with the same role and name.
TokensKept ==
    \A o \in Refs :
        \A j \in 1 .. Len(heap[o].players), k \in 1 .. Len(heap'[o].players) :
            heap[o].players[j].v.token = heap'[o].players[k].v.token
            => /\ heap[o].players[j].v.role = heap'[o].players[k].v.role
               /\ heap[o].players[j].v.name = heap'[o].players[k].v.name

\* C4: no step alters the role or the token of a player entry that stays in its
\* room, and a token stays with its role and name.
C4_RoleAndTokenFixed ==
    [][heap' # heap => (EntriesKept /\ TokensKept)]_vars

\* What the matchmaking protocol says of findOpponent by s in the current state.
FindOpponentStep(s, playerName, roomId) ==
    IF waitingPlayers = <<>>
    THEN /\ waitingPlayers' = <<[socket |-> s, name |-> sanitize(playerName)]>>
         /\ findOpponentOut(s, playerName, roomId) = <<Emit(s, "waitingForOpponent", <<>>)>>
    ELSE LET waiter == waitingPlayers[1].socket
             room == RoomOfNext(roomId)
             msgs == findOpponentOut(s, playerName, roomId)
         IN /\ waitingPlayers' = Tail(waitingPlayers)
            /\ Len(room.players) = 2
            /\ MapHas(room.players, waiter)
            /\ MapHas(room.players, s)
            /\ MapGet(room.players, waiter).role = "X"
            /\ MapGet(room.players, s).role = "O"
            /\ MapGet(room.players, waiter).token # MapGet(room.players, s).token
            /\ \E i \in 1 .. Len(msgs) :
                  /\ msgs[i].ev = "opponentFound"
                  /\ msgs[i].sock = waiter
                  /\ msgs[i].data.playerToken = MapGet(room.players, waiter).token
            /\ \E i \in 1 .. Len(msgs) :
                  /\ msgs[i].ev = "opponentFound"
                  /\ msgs[i].sock = s
                  /\ msgs[i].data.playerToken = MapGet(room.players, s).token

\* C9: findOpponent with an empty queue appends the caller and sends
\* waitingForOpponent; with a non-empty queue it removes the oldest waiter and
\* creates a room of exactly two players, the waiter with mark X and the caller
\* with mark O, each notified with its own token; for every caller.
C9_FindOpponentPairs ==
    [][\A s \in Connected, n \in Names, r \in RoomIds :
          findOpponent(s, n, r) => FindOpponentStep(s, n, r)]_vars

\* What the reconnection protocol says of a successful reconnectGame by s.
ReconnectStep(s, playerToken) ==
    LET o == rooms[TokenRoom(playerToken)].v
        old == MapGet(heap[o].players, TokenHolder(heap[o].players, playerToken))
    IN /\ Len(heap'[o].players) = Len(heap[o].players)
       /\ MapHas(heap'[o].players, s)
       /\ MapGet(heap'[o].players, s) = [old EXCEPT !.id = s]

\* C10: a successful reconnectGame leaves the room's player count unchanged and
\* the token's player registered under the reconnecting connection with the same
\* token, role and name, whatever the reconnecting connection is.
C10_ReconnectKeepsRoom ==
    [][\A s \in Connected, tok \in Tokens :
          (TokenRooms(tok) # {} /\ reconnectGame(s, tok)) => ReconnectStep(s, tok)]_vars

\* ------------------------------------------------------------ eviction properties
\* The player a pending timer was scheduled for is still registered, in the room
\* object the timer holds, under the connection whose disconnect scheduled it:
\* that player has not reconnected.
TimerOwnerWaiting(t) ==
    /\ ~sockets[t.sock]
    /\ MapHas(heap[t.room].players, t.sock)
    /\ MapGet(heap[t.room].players, t.sock).token = t.token

\* A successful reconnectGame with the token leaves no timer pending that was
\* scheduled for the token or for the connection the token's player had.
CancelStep(playerToken) ==
    LET o == rooms[TokenRoom(playerToken)].v
        oldSocketId == TokenHolder(heap[o].players, playerToken)
    IN \A t \in timers :
          (t.token = playerToken \/ (t.room = o /\ t.sock = oldSocketId))
          => t \notin timers'

\* A timer becomes pending only in the disconnect of its own connection.
ScheduledByDisconnect ==
    \A t \in timers' \ timers : sockets[t.sock] /\ ~sockets'[t.sock]

\* C11: a timer cancelled by a reconnect never afterwards changes room state:
\* a successful reconnectGame removes the timer of the token's player from the
\* pending timers, a timer becomes pending only in the disconnect of its own
\* connection (which happens once), and only pending timers run, so every timer
\* that is pending, hence every timer that runs, belongs to a player that has
\* not reconnected.
C11_CancelledTimerInert ==
    /\ [](\A t \in timers : TimerOwnerWaiting(t))
    /\ [][(timers # {} \/ timers' # {}) =>
             /\ ScheduledByDisconnect
             /\ \A s \in Connected, tok \in Tokens :
                   (TokenRooms(tok) # {} /\ reconnectGame(s, tok)) => CancelStep(tok)]_vars

\* C11 witness: a timer is pending for a disconnected player while another
\* connection is open, so that reconnectGame with the player's token, which
\* cancels that timer, and the expiry of the timer are both offered.
C11_Witness ==
    \E t \in timers, s \in Connected :
        /\ TokenRooms(t.token) # {}
        /\ ClearedTimers(heap[rooms[TokenRoom(t.token)].v], t.token) = {t}
        /\ ENABLED (reconnectGame(s, t.token) /\ timers' = timers \ {t})

\* The canonical view of a room object, as a roomState payload for roomId.
View(room, roomId) ==
    [roomId |-> roomId,
     players |-> [j \in 1 .. Len(room.players) |-> room.players[j].v],
     board |-> room.board,
     currentPlayer |-> room.currentPlayer,
     gameActive |-> room.gameActive,
     scores |-> room.scores,
     messages |-> room.messages,
     winningCells |-> room.winningCells]

\* What the eviction protocol says of the expiry of timer t, whose player has
\* not reconnected.
EvictStep(t) ==
    LET after == heap'[t.room]
    IN /\ ~MapHas(after.players, t.sock)
       /\ \A s \in 1 .. Len(sockets) :
             (s # t.sock /\ MapHas(heap[t.room].players, s))
             => (MapHas(after.players, s)
                 /\ MapGet(after.players, s) = MapGet(heap[t.room].players, s))
       /\ IF Len(after.players) = 0
          THEN /\ t.room \notin {rooms'[i].v : i \in 1 .. Len(rooms')}
               /\ evictionTimerOut(t) = <<>>
          ELSE /\ rooms' = rooms
               /\ evictionTimerOut(t) =
                     <<EmitRoom(t.roomId, "roomState", View(after, t.roomId))>>

\* C12: when an eviction timer expires and its player has not reconnected, the
\* player is removed from the room; if the room then has no players it is not in
\* the registry afterwards, otherwise the registry is kept and the room's
\* canonical state is broadcast to the room's group.
C12_ExpiryEvicts ==
    [][timers' # timers =>
          \A t \in timers :
              (TimerOwnerWaiting(t) /\ evictionTimer(t)) => EvictStep(t)]_vars

\* Every player of the room object is registered under a closed connection.
Abandoned(o) ==
    /\ heap[o].players # <<>>
    /\ \A j \in 1 .. Len(heap[o].players) : ~sockets[heap[o].players[j].k]

\* C13: a live room all of whose players have disconnected is on its way to
\* deletion: each of its players has a pending eviction timer on that room, so
\* that, timers firing and nobody reconnecting, the room empties and is deleted.
\* (Only a timer removes a disconnected player, and only the timer of a room
\* that empties deletes it.)
C13_AbandonedRoomExpires ==
    \A o \in LiveRefs :
        Abandoned(o)
        => \A j \in 1 .. Len(heap[o].players) :
              \E t \in timers : t.room = o /\ t.sock = heap[o].players[j].k

\* Connection s is the creator and sole member of the room at registry position
\* i, and nobody has joined a room since it was created (its token is the last
\* one issued).
SoleCreator(s, i) ==
    LET players == heap[rooms[i].v].players
    IN /\ Len(players) = 1
       /\ players[1].k = s
       /\ players[1].v.role = "X"
       /\ players[1].v.token = tokens

\* C14: when the connection of a room's creator is lost while it is the sole
\* member and nobody has joined, the room is destroyed in the handling of that
\* event: after the disconnect step its id is not in the registry, so that no
\* later joinRoom on the id can succeed.
C14_SoleCreatorLeaves ==
    [][\A s \in Connected, i \in 1 .. Len(rooms) :
          (SoleCreator(s, i) /\ disconnect(s)) => ~RoomsHas(rooms', rooms[i].k)]_vars

\* ------------------------------------------------------------ lobby properties
\* The room id is unknown or its room already has 2 players.
JoinRefused(roomId) ==
    \/ roomId \notin {rooms[i].k : i \in 1 .. Len(rooms)}
    \/ \E i \in 1 .. Len(rooms) : rooms[i].k = roomId /\ Len(heap[rooms[i].v].players) = 2

\* The messages are one roomError addressed to connection s alone.
OnlyRoomErrorTo(msgs, s) ==
    /\ Len(msgs) = 1
    /\ msgs[1].ev = "roomError"
    /\ msgs[1].sock = s
    /\ msgs[1].room = ""

\* C15: joinRoom on an unknown room id, or on a room that already has 2 players,
\* sends one roomError to the requesting connection only, nothing to any room,
\* and has no step that changes the registry, a room, the waiting queue or any
\* other part of the state.
C15_JoinRefusedSilent ==
    \A s \in Connected, n \in Names, r \in RoomIds :
        JoinRefused(r)
        => /\ OnlyRoomErrorTo(joinRoomOut(s, r, n), s)
           /\ ~ENABLED (joinRoom(s, r, n) /\ vars' # vars)

\* C15 witness: an open connection, an unknown room id, a room with 2 players
\* and a non-empty waiting queue, so that refused joins of both kinds are
\* offered with something to keep in every part of the state.
C15_Witness ==
    /\ Connected # {}
    /\ waitingPlayers # <<>>
    /\ \E r \in RoomIds : ~RoomsHas(rooms, r)
    /\ \E r \in RoomIds : RoomsHas(rooms, r) /\ Len(RoomOf(rooms, heap, r).players) = 2

\* The connections that have an entry in the waiting queue.
Waiting(queue) == {queue[i].socket : i \in 1 .. Len(queue)}

\* C16: after the disconnect of a connection it is in no waiting-queue entry,
\* and every connection in the queue is open, so the waiter findOpponent pairs
\* an arriving player with has not disconnected.
C16_NoDeadWaiter ==
    /\ [](\A s \in Waiting(waitingPlayers) : sockets[s])
    /\ [][sockets' # sockets =>
             \A s \in Connected : disconnect(s) => s \notin Waiting(waitingPlayers')]_vars

\* C16 witness: a connection waits in the queue while another connection has
\* been closed: the waiter can cancel, disconnect or be paired.
C16_Witness ==
    /\ \E s \in Waiting(waitingPlayers) : s \in Connected
    /\ \E s \in 1 .. Len(sockets) : ~sockets[s]

\* ------------------------------------------------------------ broadcast properties
\* msg is among the messages.
Among(msg, msgs) == \E i \in 1 .. Len(msgs) : msgs[i] = msg

\* The step is the handling of an event that sends msg.
Sends(msg) ==
    \/ \E s \in Connected, n \in Names, r \in RoomIds :
          createRoom(s, n, r) /\ Among(msg, createRoomOut(s, n, r))
    \/ \E s \in Connected, n \in Names, r \in RoomIds :
          joinRoom(s, r, n) /\ Among(msg, joinRoomOut(s, r, n))
    \/ \E s \in Connected, n \in Names, r \in RoomIds :
          findOpponent(s, n, r) /\ Among(msg, findOpponentOut(s, n, r))
    \/ \E s \in Connected, r \in RoomIds, c \in CellInputs :
          makeMove(s, r, c) /\ Among(msg, makeMoveOut(s, r, c))
    \/ \E s \in Connected, r \in RoomIds :
          resetGame(s, r) /\ Among(msg, resetGameOut(s, r))
    \/ \E s \in Connected, r \in RoomIds, t \in Texts :
          sendMessage(s, r, t) /\ Among(msg, sendMessageOut(s, r, t))
    \/ \E s \in Connected, tok \in Tokens :
          reconnectGame(s, tok) /\ Among(msg, reconnectGameOut(s, tok))
    \/ \E s \in Connected :
          disconnect(s) /\ Among(msg, disconnectOut(s))
    \/ \E t \in timers :
          evictionTimer(t) /\ Among(msg, evictionTimerOut(t))

\* C17: every step that changes the canonical view of a room that is live before
\* and after it sends a roomState carrying the new view to the room's group.
C17_ViewChangeBroadcast ==
    [][heap' # heap =>
          \A i \in 1 .. Len(rooms') :
              (/\ rooms'[i].v \in LiveRefs
               /\ View(heap'[rooms'[i].v], rooms'[i].k) # View(heap[rooms'[i].v], rooms'[i].k))
              => Sends(EmitRoom(rooms'[i].k, "roomState",
                                View(heap'[rooms'[i].v], rooms'[i].k)))]_vars

\* ------------------------------------------------------------ round properties
\* The flags of a room object agree with its board.
FlagsMatchBoard(room) ==
    /\ (room.gameActive = FALSE) <=> (~NoTriple(room.board) \/ Full(room.board))
    /\ (room.winningCells # Null) <=> ~NoTriple(room.board)
    /\ room.winningCells # Null
       => \E mark \in {"X", "O"} : UniformTriple(room.board, room.winningCells, mark)

\* C18: in every live room gameActive is false exactly when the board holds a
\* uniform non-empty triple or has no empty cell, and winningCells is non-null
\* exactly when the board holds a uniform non-empty triple, which it then names.
C18_FlagsMatchBoard == \A o \in LiveRefs : FlagsMatchBoard(heap[o])

\* C18 witness: a round in play, with marks on the board, after a round that
\* was drawn.
C18_Witness ==
    \E o \in LiveRefs :
        /\ heap[o].scores = [winsX |-> 0, winsO |-> 0, draws |-> 1]
        /\ heap[o].gameActive
        /\ heap[o].winningCells = Null
        /\ \E c \in Cells : heap[o].board[c] # ""

\* ------------------------------------------------------------ queue properties
\* C19: the matchmaking queue never holds more than one entry.
C19_QueueAtMostOne == Len(waitingPlayers) <= 1

\* C19 witness: one connection waits and another open connection, which may
\* call findOpponent, is not in the queue; a room of two players is live.
C19_Witness ==
    /\ Len(waitingPlayers) = 1
    /\ \E s \in Connected : s \notin Waiting(waitingPlayers)
    /\ \E o \in LiveRefs : Len(heap[o].players) = 2

\* ------------------------------------------------------------ group properties
\* C20: the open connections in the broadcast group of a room id are players of
\* the live room with that id.
C20_GroupWithinPlayers ==
    \A r \in RoomIds :
        \A s \in joined[r] :
            /\ RoomsHas(rooms, r)
            /\ MapHas(RoomOf(rooms, heap, r).players, s)

====
